---------------------------- MODULE Spec2Model ----------------------------
(***************************************************************************)
(* A model of database/data_access_models.py of beiwe-backend: the chunk   *)
(* registry (ChunkRegistry), the queue of files to process (FileToProcess) *)
(* and the file processing lock (FileProcessLock).                         *)
(*                                                                         *)
(* Every database table is a sequence of rows in primary-key order, every  *)
(* ORM statement (exists, create, delete, save) is one atomic step, and a  *)
(* Python string is a sequence of one-character strings.                   *)
(***************************************************************************)
EXTENDS Integers, Sequences, FiniteSets, TLC

(***************************************************************************)
(* Bounds of the model.                                                    *)
(***************************************************************************)
\* Number of worker processes that call the lock API.
NumWorkers == 2
\* The clock (datetime.utcnow) runs from 0 to MaxTime.
MaxTime == 4

\* The chunk registry holds at most MaxChunks rows.
MaxChunks == 2
\* The file queue holds at most MaxFiles rows.
MaxFiles == 2
\* Concurrent callers issue at most MaxCalls registrations and appends.
MaxCalls == 3

Workers == 1..NumWorkers

VARIABLES
    lockTable,  \* FileProcessLock rows in primary-key order: their lock_time
    now,        \* the value datetime.utcnow() returns
    pc,         \* per worker: "idle", or "lock_create" inside lock() after islocked() returned False
    ret,        \* per worker: what its last completed call returned or raised
    phase,      \* per worker: its place in the pipeline cycle ("out", "acquiring", "in")
    registry,   \* ChunkRegistry rows in primary-key order
    fileQueue,  \* FileToProcess rows in primary-key order
    outcome,    \* what the last call on the registry or the queue returned or raised
    pending,    \* per caller: the row its call in progress is about to create, or Idle
    issued,     \* history: the calls of concurrent callers in the order they began
    lastUnlock  \* history: the caller of the last unlock(), its phase, the rows it deleted

vars == <<lockTable, now, pc, ret, phase, registry, fileQueue, outcome, pending, issued, lastUnlock>>
callVars == <<pending, issued, lastUnlock>>
lockVars == <<lockTable, now, pc, ret, phase>>

(***************************************************************************)
(* Results of a call: a return value or a raised exception.                *)
(***************************************************************************)
\* Each names the operation called; records of different kinds have different fields.
NoCall == [kind |-> "no call"]
ReturnNone(op) == [op |-> op, kind |-> "None"]
ReturnBool(op, v) == [op |-> op, kind |-> "bool", b |-> v]
ReturnTimedelta(op, d) == [op |-> op, kind |-> "timedelta", delta |-> d]
Raise(op, e) == [op |-> op, kind |-> "raise", exc |-> e]

FileProcessingLockedError == "FileProcessingLockedError"
UnchunkableDataTypeError == "UnchunkableDataTypeError"
ChunkableDataTypeError == "ChunkableDataTypeError"
\* None.lock_time: Python's error for an attribute of None.
AttributeError == "AttributeError"

(***************************************************************************)
(* FileProcessLock                                                         *)
(***************************************************************************)
\* cls.objects.exists()
islocked == Len(lockTable) > 0

\* FileProcessLock.objects.last(): the row of greatest primary key, or None.
NoRow == [row |-> "None"]
objects_last == IF Len(lockTable) = 0 THEN NoRow ELSE [row |-> "FileProcessLock", lock_time |-> lockTable[Len(lockTable)]]

\* cls.objects.create(lock_time=datetime.utcnow())
objects_create_lock == Append(lockTable, now)

\* A delete of the newest row only, as objects.last().delete() would do.
objects_last_delete == IF Len(lockTable) = 0 THEN << >> ELSE SubSeq(lockTable, 1, Len(lockTable) - 1)

\* cls.objects.all().delete(): one DELETE statement over the whole table.
objects_all_delete == << >>

\* A lock() that stamps the held lock again before it raises.
lock_islocked_restamp(w) ==
    /\ pc[w] = "idle"
    /\ IF islocked
          THEN /\ ret' = [ret EXCEPT ![w] = Raise("lock", FileProcessingLockedError)]
               /\ lockTable' = [i \in 1..Len(lockTable) |-> now]
               /\ pc' = pc
          ELSE /\ pc' = [pc EXCEPT ![w] = "lock_create"]
               /\ ret' = ret
               /\ lockTable' = lockTable
    /\ UNCHANGED now

\* lock(), first statement: the islocked() read, and the raise when it is True.
lock_islocked(w) ==
    /\ pc[w] = "idle"
    /\ IF islocked
          THEN /\ ret' = [ret EXCEPT ![w] = Raise("lock", FileProcessingLockedError)]
               /\ pc' = pc
          ELSE /\ pc' = [pc EXCEPT ![w] = "lock_create"]
               /\ ret' = ret
    /\ UNCHANGED <<lockTable, now>>

\* lock(), else branch: the create, a separate statement after the read.
lock_create(w) ==
    /\ pc[w] = "lock_create"
    /\ lockTable' = objects_create_lock
    /\ pc' = [pc EXCEPT ![w] = "idle"]
    /\ ret' = [ret EXCEPT ![w] = ReturnNone("lock")]
    /\ UNCHANGED now

\* An unlock() that deletes only for a caller inside the guarded section.
unlock_holder_only(w) ==
    /\ pc[w] = "idle"
    /\ lockTable' = IF phase[w] = "in" THEN objects_all_delete ELSE lockTable
    /\ ret' = [ret EXCEPT ![w] = ReturnNone("unlock")]
    /\ UNCHANGED <<now, pc>>

\* unlock()
unlock(w) ==
    /\ pc[w] = "idle"
    /\ lockTable' = objects_all_delete
    /\ ret' = [ret EXCEPT ![w] = ReturnNone("unlock")]
    /\ UNCHANGED <<now, pc>>

\* islocked() called on its own.
islocked_call(w) ==
    /\ pc[w] = "idle"
    /\ ret' = [ret EXCEPT ![w] = ReturnBool("islocked", islocked)]
    /\ UNCHANGED <<lockTable, now, pc>>

\* A get_time_since_locked() that clears a lock it finds older than one tick.
get_time_since_locked_expiring(w) ==
    /\ pc[w] = "idle"
    /\ LET last == objects_last
       IN  /\ ret' = [ret EXCEPT ![w] =
                        IF last = NoRow
                           THEN Raise("get_time_since_locked", AttributeError)
                           ELSE ReturnTimedelta("get_time_since_locked", now - last.lock_time)]
           /\ lockTable' = IF last # NoRow /\ now - last.lock_time > 1 THEN << >> ELSE lockTable
    /\ UNCHANGED <<now, pc>>

\* get_time_since_locked()
get_time_since_locked(w) ==
    /\ pc[w] = "idle"
    /\ LET last == objects_last
       IN  ret' = [ret EXCEPT ![w] =
                     IF last = NoRow
                        THEN Raise("get_time_since_locked", AttributeError)
                        ELSE ReturnTimedelta("get_time_since_locked", now - last.lock_time)]
    /\ UNCHANGED <<lockTable, now, pc>>

\* The clock advances.
Tick ==
    /\ now < MaxTime
    /\ now' = now + 1
    /\ UNCHANGED <<lockTable, pc, ret>>

(***************************************************************************)
(* Configuration (config/constants.py) and the hash provider               *)
(* (libs/security.py)                                                      *)
(***************************************************************************)
CHUNKABLE_FILES == {"accelerometer", "gps"}
ALL_DATA_STREAMS == CHUNKABLE_FILES \cup {"survey_answers"}
\* Seconds per time bucket.
CHUNK_TIMESLICE_QUANTUM == 3600

\* File contents are byte strings over a two-byte alphabet.
RECURSIVE Concat(_)
Concat(frags) == IF Len(frags) = 0 THEN << >> ELSE frags[1] \o Concat(Tail(frags))
RECURSIVE md5_update(_, _)
\* A running digest fed the bytes of data, one at a time.
md5_update(d, data) ==
    IF Len(data) = 0 THEN d ELSE md5_update((3 * d + Head(data) + 1) % 16, Tail(data))
\* The digest as a string of fixed width.
b64encode(d) == <<d \div 4, d % 4>>
chunk_hash(data) == b64encode(md5_update(0, data))
\* Content that is no byte string (None, text) holds a negative number; the
\* hash of it raises TypeError.
TypeError == "TypeError"
chunk_hash_raises(data) == \E i \in 1..Len(data) : data[i] < 0
low_memory_chunk_hash_raises(list_data) == \E i \in 1..Len(list_data) : chunk_hash_raises(list_data[i])
RECURSIVE md5_update_all(_, _)
md5_update_all(d, frags) ==
    IF Len(frags) = 0 THEN d ELSE md5_update_all(md5_update(d, Head(frags)), Tail(frags))
low_memory_chunk_hash(list_data) == b64encode(md5_update_all(0, list_data))

(***************************************************************************)
(* ChunkRegistry                                                           *)
(*                                                                         *)
(* A time_bin argument h stands for the number h/2, so an odd h is a float *)
(* that is not an integer; a datetime counts half seconds from the epoch.  *)
(***************************************************************************)
\* Python's int(x): truncation toward zero.
int(h) == IF h >= 0 THEN h \div 2 ELSE -((-h) \div 2)

\* datetime.fromtimestamp(t), t in half seconds: the day and the time of day.
fromtimestamp(t) == [days |-> t \div 172800, halfseconds |-> t % 172800]

ChunkRow(is_chunkable, chunk_path, hash, data_type, time_bin, study_id, participant_id, survey_id) ==
    [is_chunkable |-> is_chunkable, chunk_path |-> chunk_path, chunk_hash |-> hash,
     data_type |-> data_type, time_bin |-> time_bin, study_id |-> study_id,
     participant_id |-> participant_id, survey_id |-> survey_id]

\* A registration that creates the row with an empty hash and hashes afterwards.
register_chunked_data_create_first(data_type, time_bin, chunk_path, file_contents, study_id, participant_id, survey_id) ==
    IF data_type \notin CHUNKABLE_FILES
       THEN /\ outcome' = Raise("register_chunked_data", UnchunkableDataTypeError)
            /\ registry' = registry
       ELSE LET seconds == int(time_bin) * CHUNK_TIMESLICE_QUANTUM
                failed == chunk_hash_raises(file_contents)
            IN  /\ Len(registry) < MaxChunks
                /\ registry' = Append(registry,
                      ChunkRow(TRUE, chunk_path, IF failed THEN << >> ELSE chunk_hash(file_contents),
                               data_type, fromtimestamp(2 * seconds), study_id, participant_id, survey_id))
                /\ outcome' = IF failed THEN Raise("register_chunked_data", TypeError)
                                        ELSE ReturnNone("register_chunked_data")

register_chunked_data(data_type, time_bin, chunk_path, file_contents, study_id, participant_id, survey_id) ==
    IF data_type \notin CHUNKABLE_FILES
       THEN /\ outcome' = Raise("register_chunked_data", UnchunkableDataTypeError)
            /\ registry' = registry
       ELSE IF chunk_hash_raises(file_contents)
       THEN /\ outcome' = Raise("register_chunked_data", TypeError)
            /\ registry' = registry
       ELSE LET seconds == int(time_bin) * CHUNK_TIMESLICE_QUANTUM
                chunk_hash_str == chunk_hash(file_contents)
            IN  /\ Len(registry) < MaxChunks
                /\ registry' = Append(registry,
                      ChunkRow(TRUE, chunk_path, chunk_hash_str, data_type,
                               fromtimestamp(2 * seconds), study_id, participant_id, survey_id))
                /\ outcome' = ReturnNone("register_chunked_data")

\* A registration of unchunked data that aligns time_bin as the chunked one does.
register_unchunked_data_aligned(data_type, time_bin, chunk_path, study_id, participant_id, survey_id) ==
    IF data_type \in CHUNKABLE_FILES
       THEN /\ outcome' = Raise("register_unchunked_data", ChunkableDataTypeError)
            /\ registry' = registry
       ELSE /\ Len(registry) < MaxChunks
            /\ registry' = Append(registry,
                  ChunkRow(FALSE, chunk_path, << >>, data_type,
                           fromtimestamp(2 * int(time_bin) * CHUNK_TIMESLICE_QUANTUM),
                           study_id, participant_id, survey_id))
            /\ outcome' = ReturnNone("register_unchunked_data")

\* A registration that misses the check of the data type.
register_unchunked_data_unchecked(data_type, time_bin, chunk_path, study_id, participant_id, survey_id) ==
    /\ Len(registry) < MaxChunks
    /\ registry' = Append(registry,
          ChunkRow(FALSE, chunk_path, << >>, data_type,
                   fromtimestamp(time_bin), study_id, participant_id, survey_id))
    /\ outcome' = ReturnNone("register_unchunked_data")

register_unchunked_data(data_type, time_bin, chunk_path, study_id, participant_id, survey_id) ==
    IF data_type \in CHUNKABLE_FILES
       THEN /\ outcome' = Raise("register_unchunked_data", ChunkableDataTypeError)
            /\ registry' = registry
       ELSE /\ Len(registry) < MaxChunks
            /\ registry' = Append(registry,
                  ChunkRow(FALSE, chunk_path, << >>, data_type,
                           fromtimestamp(time_bin), study_id, participant_id, survey_id))
            /\ outcome' = ReturnNone("register_unchunked_data")

\* An optional argument: left at its default None, or given.
Absent == [given |-> FALSE]
Given(v) == [given |-> TRUE, val |-> v]
\* Python's truth value of an argument that is None or a list.
truthy_list(a) == a.given /\ a.val # {}
\* Python's truth value of an argument that is None or a datetime: a datetime is always true.
truthy_datetime(a) == a.given

\* The Participant table (database/user_models.py): the patient_id of a primary key.
patient_id(pk) == <<"patient", pk>>

\* time_bin__gte / time_bin__lte: the order of datetimes.
datetime_lte(a, b) == a.days < b.days \/ (a.days = b.days /\ a.halfseconds <= b.halfseconds)

\* cls.objects.filter(**query): the primary keys of the rows that match every entry of query.
objects_filter(study_id, query_users, query_types, query_start, query_end) ==
    {pk \in 1..Len(registry) :
        /\ registry[pk].study_id = study_id
        /\ query_users.given => patient_id(registry[pk].participant_id) \in query_users.val
        /\ query_types.given => registry[pk].data_type \in query_types.val
        /\ query_start.given => datetime_lte(query_start.val, registry[pk].time_bin)
        /\ query_end.given => datetime_lte(registry[pk].time_bin, query_end.val)}

\* The query set is evaluated when it is returned.
get_chunks_time_range(study_id, user_ids, data_types, start, end) ==
    /\ outcome' = [op |-> "get_chunks_time_range", kind |-> "QuerySet",
                   rows |-> objects_filter(study_id,
                               IF truthy_list(user_ids) THEN user_ids ELSE Absent,
                               IF truthy_list(data_types) THEN data_types ELSE Absent,
                               IF truthy_datetime(start) THEN start ELSE Absent,
                               IF truthy_datetime(end) THEN end ELSE Absent)]
    /\ registry' = registry

\* An update of the hash that is written to every row of the table.
update_chunk_hash_every_row(pk, data_to_hash) ==
    /\ pk \in 1..Len(registry)
    /\ IF chunk_hash_raises(data_to_hash)
          THEN /\ outcome' = Raise("update_chunk_hash", TypeError)
               /\ registry' = registry
          ELSE /\ registry' = [i \in 1..Len(registry) |->
                                  [registry[i] EXCEPT !.chunk_hash = chunk_hash(data_to_hash)]]
               /\ outcome' = ReturnNone("update_chunk_hash")

\* self is the row of primary key pk.
update_chunk_hash(pk, data_to_hash) ==
    /\ pk \in 1..Len(registry)
    /\ IF chunk_hash_raises(data_to_hash)
          THEN /\ outcome' = Raise("update_chunk_hash", TypeError)
               /\ registry' = registry
          ELSE /\ registry' = [registry EXCEPT ![pk].chunk_hash = chunk_hash(data_to_hash)]
               /\ outcome' = ReturnNone("update_chunk_hash")

\* An update that computes the hash and never saves the row.
low_memory_update_chunk_hash_unsaved(pk, list_data_to_hash) ==
    /\ pk \in 1..Len(registry)
    /\ registry' = registry
    /\ outcome' = ReturnNone("low_memory_update_chunk_hash")

low_memory_update_chunk_hash(pk, list_data_to_hash) ==
    /\ pk \in 1..Len(registry)
    /\ IF low_memory_chunk_hash_raises(list_data_to_hash)
          THEN /\ outcome' = Raise("low_memory_update_chunk_hash", TypeError)
               /\ registry' = registry
          ELSE /\ registry' = [registry EXCEPT ![pk].chunk_hash = low_memory_chunk_hash(list_data_to_hash)]
               /\ outcome' = ReturnNone("low_memory_update_chunk_hash")

(***************************************************************************)
(* FileToProcess                                                           *)
(***************************************************************************)
\* The Study table (database/study_models.py): primary key and object_id.
ObjectId24 == <<"5", "8", "7", "3", "f", "e", "3", "8", "6", "4", "4", "a", "d", "7", "5", "5", "7", "b", "1", "6", "8", "e", "4", "3">>
ObjectIdShort == <<"a", "b", "c", "1", "2", "3">>
\* An object_id that two studies have.
ObjectIdTwice == <<"t", "w", "i", "c", "e">>
StudyTable ==
    {[pk |-> 1, object_id |-> ObjectId24], [pk |-> 2, object_id |-> ObjectIdShort],
     [pk |-> 3, object_id |-> ObjectIdTwice], [pk |-> 4, object_id |-> ObjectIdTwice]}

DoesNotExist == "DoesNotExist"
MultipleObjectsReturned == "MultipleObjectsReturned"

\* Study.objects.filter(object_id=study_object_id).values_list('pk', flat=True)
study_pks(study_object_id) == {st.pk : st \in {x \in StudyTable : x.object_id = study_object_id}}

\* file_path[:n]
SliceTo(str, n) == SubSeq(str, 1, IF Len(str) < n THEN Len(str) ELSE n)

\* An append whose test of the prefix is inverted.
append_file_for_processing_inverted(file_path, study_object_id, participant_id) ==
    LET pks == study_pks(study_object_id)
    IN  IF Cardinality(pks) # 1
           THEN /\ outcome' = Raise("append_file_for_processing",
                                 IF pks = {} THEN DoesNotExist ELSE MultipleObjectsReturned)
                /\ fileQueue' = fileQueue
           ELSE LET study_pk == CHOOSE k \in pks : TRUE
                    s3_file_path == IF SliceTo(file_path, 24) # study_object_id
                                       THEN file_path
                                       ELSE study_object_id \o <<"/">> \o file_path
                IN  /\ Len(fileQueue) < MaxFiles
                    /\ fileQueue' = Append(fileQueue,
                          [s3_file_path |-> s3_file_path, study_id |-> study_pk,
                           participant_id |-> participant_id])
                    /\ outcome' = ReturnNone("append_file_for_processing")

\* An append that takes the first study found, as .first() in place of .get() would do.
append_file_for_processing_first(file_path, study_object_id, participant_id) ==
    LET pks == study_pks(study_object_id)
    IN  IF pks = {}
           THEN /\ outcome' = Raise("append_file_for_processing", DoesNotExist)
                /\ fileQueue' = fileQueue
           ELSE LET study_pk == CHOOSE k \in pks : \A j \in pks : k <= j
                    s3_file_path == IF SliceTo(file_path, 24) = study_object_id
                                       THEN file_path
                                       ELSE study_object_id \o <<"/">> \o file_path
                IN  /\ Len(fileQueue) < MaxFiles
                    /\ fileQueue' = Append(fileQueue,
                          [s3_file_path |-> s3_file_path, study_id |-> study_pk,
                           participant_id |-> participant_id])
                    /\ outcome' = ReturnNone("append_file_for_processing")

append_file_for_processing(file_path, study_object_id, participant_id) ==
    LET pks == study_pks(study_object_id)
    IN  IF Cardinality(pks) # 1
           THEN /\ outcome' = Raise("append_file_for_processing",
                                 IF pks = {} THEN DoesNotExist ELSE MultipleObjectsReturned)
                /\ fileQueue' = fileQueue
           ELSE LET study_pk == CHOOSE k \in pks : TRUE
                    s3_file_path == IF SliceTo(file_path, 24) = study_object_id
                                       THEN file_path
                                       ELSE study_object_id \o <<"/">> \o file_path
                IN  /\ Len(fileQueue) < MaxFiles
                    /\ fileQueue' = Append(fileQueue,
                          [s3_file_path |-> s3_file_path, study_id |-> study_pk,
                           participant_id |-> participant_id])
                    /\ outcome' = ReturnNone("append_file_for_processing")

(***************************************************************************)
(* Calls in progress at the same time.  A registration or an append is the *)
(* work the caller does on its own (the checks, the hash, the read of the  *)
(* study) followed by one INSERT; between the two, other callers run.      *)
(***************************************************************************)
\* No call in progress.
Idle == [at |-> "idle"]

\* The row register_chunked_data creates.
chunked_row(call) ==
    ChunkRow(TRUE, call.chunk_path, chunk_hash(call.file_contents), call.data_type,
             fromtimestamp(2 * int(call.time_bin) * CHUNK_TIMESLICE_QUANTUM),
             call.study_id, call.participant_id, call.survey_id)

\* The row register_unchunked_data creates.
unchunked_row(call) ==
    ChunkRow(FALSE, call.chunk_path, << >>, call.data_type, fromtimestamp(call.time_bin),
             call.study_id, call.participant_id, call.survey_id)

\* The row append_file_for_processing creates.
queue_row(call) ==
    [s3_file_path |-> IF SliceTo(call.file_path, 24) = call.study_object_id
                         THEN call.file_path
                         ELSE call.study_object_id \o <<"/">> \o call.file_path,
     study_id |-> CHOOSE k \in study_pks(call.study_object_id) : TRUE,
     participant_id |-> call.participant_id]

\* The table a call inserts into and the row it inserts.
table_of(call) == IF call.op = "append_file_for_processing" THEN "fileQueue" ELSE "registry"
row_of(call) ==
    IF call.op = "register_chunked_data" THEN chunked_row(call)
    ELSE IF call.op = "register_unchunked_data" THEN unchunked_row(call)
    ELSE queue_row(call)

\* Whether the call reaches its create.
call_succeeds(call) ==
    IF call.op = "register_chunked_data"
       THEN call.data_type \in CHUNKABLE_FILES /\ ~chunk_hash_raises(call.file_contents)
    ELSE IF call.op = "register_unchunked_data" THEN call.data_type \notin CHUNKABLE_FILES
    ELSE Cardinality(study_pks(call.study_object_id)) = 1

\* A begin that keeps the row to create in one place shared by all callers.
call_begin_shared(c, call) ==
    /\ pending[c] = Idle
    /\ call_succeeds(call)
    /\ Len(issued) < MaxCalls
    /\ pending' = [d \in Workers |->
                     IF d = c \/ pending[d] # Idle
                        THEN [at |-> "create", op |-> call.op, table |-> table_of(call), row |-> row_of(call)]
                        ELSE Idle]
    /\ issued' = Append(issued, call)
    /\ UNCHANGED <<registry, fileQueue, outcome>>

\* Caller c begins a call that will succeed: everything up to its create.
call_begin(c, call) ==
    /\ pending[c] = Idle
    /\ call_succeeds(call)
    /\ Len(issued) < MaxCalls
    /\ pending' = [pending EXCEPT ![c] =
                     [at |-> "create", op |-> call.op, table |-> table_of(call), row |-> row_of(call)]]
    /\ issued' = Append(issued, call)
    /\ UNCHANGED <<registry, fileQueue, outcome>>

\* Caller c's objects.create: one INSERT, and the call returns.
call_create(c) ==
    /\ pending[c] # Idle
    /\ IF pending[c].table = "registry"
          THEN registry' = Append(registry, pending[c].row) /\ fileQueue' = fileQueue
          ELSE fileQueue' = Append(fileQueue, pending[c].row) /\ registry' = registry
    /\ outcome' = ReturnNone(pending[c].op)
    /\ pending' = [pending EXCEPT ![c] = Idle]
    /\ UNCHANGED issued

(***************************************************************************)
(* The arguments the callers pass.                                         *)
(***************************************************************************)
DataTypes == ALL_DATA_STREAMS
\* -1.5, -1, 0.5
TimeBins == {-3, -2, 1}
ChunkPaths == {"/chunks/x"}
Contents == {<<0>>, <<0, 1>>, <<1, 0>>}
Unhashable == <<-1>>
FragmentLists == {<<<<0>>>>, <<<<0>>, <<1>>>>, <<<<1>>, << >>, <<0>>>>}
StudyIds == {1}
ParticipantIds == {2}
None == "None"
\* The arguments of the range queries and of the registrations they search.
RangeStudyIds == {1, 2}
RangeParticipantIds == {2, 3}
RangeDataTypes == {"gps", "survey_answers"}
\* -1, 1
RangeTimeBins == {-2, 2}
UserIdLists == {Absent, Given({}), Given({patient_id(2)})}
DataTypeLists == {Absent, Given({}), Given({"gps"})}
\* The epoch and the start of the bucket of time_bin 1.
Datetimes == {Absent, Given(fromtimestamp(0)), Given(fromtimestamp(2 * CHUNK_TIMESLICE_QUANTUM))}
ObjectIds == {ObjectId24, ObjectIdShort, ObjectIdTwice, <<"n", "o", "s", "u", "c", "h">>}
FilePaths == {<<"d", "e", "v", "i", "c", "e", ".", "c", "s", "v">>, ObjectIdShort \o <<"/", "d", "e", "v", "i", "c", "e", ".", "c", "s", "v">>, ObjectId24 \o <<"/", "d", "e", "v", "i", "c", "e", ".", "c", "s", "v">>, ObjectId24 \o <<"_", "g", "p", "s", ".", "c", "s", "v">>}

\* The calls concurrent callers make.
ChunkedCall ==
    [op |-> "register_chunked_data", data_type |-> "gps", time_bin |-> 1, chunk_path |-> "/chunks/x",
     file_contents |-> <<0, 1>>, study_id |-> 1, participant_id |-> 2, survey_id |-> None]
UnchunkedCall ==
    [op |-> "register_unchunked_data", data_type |-> "survey_answers", time_bin |-> -3,
     chunk_path |-> "/chunks/x", study_id |-> 1, participant_id |-> 2, survey_id |-> None]
ConcurrentCalls ==
    {ChunkedCall, UnchunkedCall}
    \cup {[op |-> "append_file_for_processing", file_path |-> <<"d", "e", "v", "i", "c", "e", ".", "c", "s", "v">>,
           study_object_id |-> oid, participant_id |-> 2] : oid \in {ObjectId24, ObjectIdShort}}

(***************************************************************************)
(* Specifications                                                          *)
(***************************************************************************)
Init ==
    /\ lockTable = << >>
    /\ now = 0
    /\ pc = [w \in Workers |-> "idle"]
    /\ ret = [w \in Workers |-> NoCall]
    /\ phase = [w \in Workers |-> "out"]
    /\ registry = << >>
    /\ fileQueue = << >>
    /\ outcome = NoCall
    /\ pending = [c \in Workers |-> Idle]
    /\ issued = << >>
    /\ lastUnlock = [by |-> 0, phase |-> "none", deleted |-> 0]

\* Any worker calls any operation of the lock at any time.
LockNext ==
    \/ \E w \in Workers : lock_islocked(w) /\ UNCHANGED <<phase, registry, fileQueue, outcome, callVars>>
    \/ \E w \in Workers : lock_create(w) /\ UNCHANGED <<phase, registry, fileQueue, outcome, callVars>>
    \/ \E w \in Workers : unlock(w) /\ UNCHANGED <<phase, registry, fileQueue, outcome, callVars>>
    \/ \E w \in Workers : islocked_call(w) /\ UNCHANGED <<phase, registry, fileQueue, outcome, callVars>>
    \/ \E w \in Workers : get_time_since_locked(w) /\ UNCHANGED <<phase, registry, fileQueue, outcome, callVars>>
    \/ Tick /\ UNCHANGED <<phase, registry, fileQueue, outcome, callVars>>

Spec == Init /\ [][LockNext]_vars

\* Every worker calls lock() once, concurrently, from the unlocked state.
RaceNext ==
    \/ \E w \in Workers : ret[w] = NoCall /\ lock_islocked(w) /\ UNCHANGED <<phase, registry, fileQueue, outcome, callVars>>
    \/ \E w \in Workers : lock_create(w) /\ UNCHANGED <<phase, registry, fileQueue, outcome, callVars>>
    \/ Tick /\ UNCHANGED <<phase, registry, fileQueue, outcome, callVars>>

SpecRace == Init /\ [][RaceNext]_vars

(***************************************************************************)
(* The pipeline cycle of each worker: lock(), the run, unlock(); a worker  *)
(* whose lock() raised FileProcessingLockedError skips the run.            *)
(***************************************************************************)
pipeline_acquire(w) ==
    /\ phase[w] = "out"
    /\ lock_islocked(w)
    /\ phase' = IF islocked THEN phase ELSE [phase EXCEPT ![w] = "acquiring"]
    /\ UNCHANGED <<registry, fileQueue, outcome, callVars>>

pipeline_enter(w) ==
    /\ phase[w] = "acquiring"
    /\ lock_create(w)
    /\ phase' = [phase EXCEPT ![w] = "in"]
    /\ UNCHANGED <<registry, fileQueue, outcome, callVars>>

pipeline_release(w) ==
    /\ phase[w] = "in"
    /\ unlock(w)
    /\ phase' = [phase EXCEPT ![w] = "out"]
    /\ lastUnlock' = [by |-> w, phase |-> phase[w], deleted |-> Len(lockTable)]
    /\ UNCHANGED <<registry, fileQueue, outcome, pending, issued>>

PipelineNext ==
    \/ \E w \in Workers : pipeline_acquire(w)
    \/ \E w \in Workers : pipeline_enter(w)
    \/ \E w \in Workers : pipeline_release(w)
    \/ Tick /\ UNCHANGED <<phase, registry, fileQueue, outcome, callVars>>

SpecPipeline == Init /\ [][PipelineNext]_vars

\* A worker outside the guarded section, one that never called lock() or whose
\* lock() raised, calls unlock().
force_release(w) ==
    /\ phase[w] = "out"
    /\ unlock(w)
    /\ lastUnlock' = [by |-> w, phase |-> phase[w], deleted |-> Len(lockTable)]
    /\ UNCHANGED <<phase, registry, fileQueue, outcome, pending, issued>>

ForceNext ==
    \/ \E w \in Workers : pipeline_acquire(w)
    \/ \E w \in Workers : pipeline_enter(w)
    \/ \E w \in Workers : pipeline_release(w)
    \/ \E w \in Workers : force_release(w)
    \/ Tick /\ UNCHANGED <<phase, registry, fileQueue, outcome, callVars>>

SpecForce == Init /\ [][ForceNext]_vars

(***************************************************************************)
(* One caller registers chunks and updates their hashes.                   *)
(***************************************************************************)
RegistryNext ==
    \/ \E dt \in DataTypes, tb \in TimeBins, cp \in ChunkPaths, fc \in Contents \cup {Unhashable},
          st \in StudyIds, pt \in ParticipantIds :
            register_chunked_data(dt, tb, cp, fc, st, pt, None) /\ UNCHANGED <<lockVars, fileQueue, callVars>>
    \/ \E dt \in DataTypes, tb \in TimeBins, cp \in ChunkPaths,
          st \in StudyIds, pt \in ParticipantIds :
            register_unchunked_data(dt, tb, cp, st, pt, None) /\ UNCHANGED <<lockVars, fileQueue, callVars>>
    \/ \E pk \in 1..MaxChunks, data \in Contents \cup {Unhashable} :
            update_chunk_hash(pk, data) /\ UNCHANGED <<lockVars, fileQueue, callVars>>
    \/ \E pk \in 1..MaxChunks, frags \in FragmentLists :
            low_memory_update_chunk_hash(pk, frags) /\ UNCHANGED <<lockVars, fileQueue, callVars>>

SpecRegistry == Init /\ [][RegistryNext]_vars

(***************************************************************************)
(* One caller registers chunks of several studies and participants and     *)
(* queries them.                                                           *)
(***************************************************************************)
RangeNext ==
    \/ \E dt \in RangeDataTypes, tb \in RangeTimeBins, cp \in ChunkPaths,
          st \in RangeStudyIds, pt \in RangeParticipantIds :
            register_chunked_data(dt, tb, cp, <<0>>, st, pt, None) /\ UNCHANGED <<lockVars, fileQueue, callVars>>
    \/ \E dt \in RangeDataTypes, tb \in RangeTimeBins, cp \in ChunkPaths,
          st \in RangeStudyIds, pt \in RangeParticipantIds :
            register_unchunked_data(dt, tb, cp, st, pt, None) /\ UNCHANGED <<lockVars, fileQueue, callVars>>
    \/ \E st \in RangeStudyIds, us \in UserIdLists, dts \in DataTypeLists,
          start \in Datetimes, end \in Datetimes :
            get_chunks_time_range(st, us, dts, start, end) /\ UNCHANGED <<lockVars, fileQueue, callVars>>

SpecRange == Init /\ [][RangeNext]_vars

(***************************************************************************)
(* One caller appends files to the queue.                                  *)
(***************************************************************************)
QueueNext ==
    \E fp \in FilePaths, oid \in ObjectIds, pt \in ParticipantIds :
        append_file_for_processing(fp, oid, pt) /\ UNCHANGED <<lockVars, registry, callVars>>

SpecQueue == Init /\ [][QueueNext]_vars

\* Callers register and append at the same time.
ConcurrentNext ==
    \/ \E c \in Workers, call \in ConcurrentCalls :
            call_begin(c, call) /\ UNCHANGED <<lockVars, lastUnlock>>
    \/ \E c \in Workers : call_create(c) /\ UNCHANGED <<lockVars, lastUnlock>>

SpecConcurrent == Init /\ [][ConcurrentNext]_vars

(***************************************************************************)
(* Properties                                                              *)
(***************************************************************************)
StartsWith(str, prefix) == Len(prefix) <= Len(str) /\ SubSeq(str, 1, Len(prefix)) = prefix
\* floor(h/2)
floor(h) == h \div 2
NoActiveLock == "NoActiveLock"
AllCalled == \A w \in Workers : pc[w] = "idle" /\ ret[w] # NoCall
Succeeded == {w \in Workers : ret[w] = ReturnNone("lock")}

\* C1: when the workers call lock() concurrently from the unlocked state and
\* all calls have ended, exactly one has succeeded, every other has raised
\* FileProcessingLockedError, and exactly one lock row exists.
C1Claim ==
    AllCalled =>
        /\ Cardinality(Succeeded) = 1
        /\ \A w \in Workers \ Succeeded : ret[w] = Raise("lock", FileProcessingLockedError)
        /\ Len(lockTable) = 1

\* C2: in every reachable state of any interleaving of lock(), unlock(),
\* islocked() and get_time_since_locked() calls there are 0 or 1 lock rows.
C2Claim == Len(lockTable) \in {0, 1}

\* C3: at most one worker is inside the guarded section (between its
\* successful lock() and its unlock()) at any time.
C3Claim == Cardinality({w \in Workers : phase[w] = "in"}) <= 1

\* C4: a lock() call that finds the lock held raises FileProcessingLockedError
\* and leaves the lock rows and their lock_time as they were.
C4Thm ==
    [][\A w \in Workers :
          (islocked /\ lock_islocked(w)) =>
              /\ ret'[w] = Raise("lock", FileProcessingLockedError)
              /\ lockTable' = lockTable
              /\ pc'[w] = "idle"]_vars

C4Witness ==
    \E w \in Workers :
        /\ ret[w] = Raise("lock", FileProcessingLockedError)
        /\ islocked
        /\ lockTable[1] < now

\* C5: unlock() can be called in every lock state, never raises and leaves no
\* lock row; called with no lock row it changes nothing, so unlock(); unlock()
\* leaves the state of one unlock().
C5Thm ==
    /\ [](\A w \in Workers : pc[w] = "idle" => ENABLED unlock(w))
    /\ [][\A w \in Workers :
             unlock(w) =>
                 /\ ret'[w] = ReturnNone("unlock")
                 /\ lockTable' = << >>
                 /\ (~islocked => lockTable' = lockTable)]_vars

C5Witness ==
    /\ ~islocked
    /\ \E w1, w2 \in Workers :
          /\ w1 # w2
          /\ ret[w1] = ReturnNone("unlock")
          /\ ret[w2] = ReturnNone("unlock")

\* C6: get_time_since_locked() raises NoActiveLock when no lock row exists,
\* returns the time since the lock_time of the current lock row when one
\* exists, and leaves the lock rows unchanged.
C6Claim ==
    [][\A w \in Workers :
          get_time_since_locked(w) =>
              /\ lockTable' = lockTable
              /\ ret'[w] = IF islocked
                               THEN ReturnTimedelta("get_time_since_locked", now - lockTable[Len(lockTable)])
                               ELSE Raise("get_time_since_locked", NoActiveLock)]_vars

\* C7: register_unchunked_data of a chunkable data type raises
\* ChunkableDataTypeError, register_chunked_data of a data type that is not
\* chunkable raises UnchunkableDataTypeError, and both leave the registry
\* unchanged.
C7Thm ==
    [][/\ \A dt \in DataTypes \cap CHUNKABLE_FILES, tb \in TimeBins, cp \in ChunkPaths,
             st \in StudyIds, pt \in ParticipantIds :
             register_unchunked_data(dt, tb, cp, st, pt, None) =>
                 /\ outcome' = Raise("register_unchunked_data", ChunkableDataTypeError)
                 /\ registry' = registry
       /\ \A dt \in DataTypes \ CHUNKABLE_FILES, tb \in TimeBins, cp \in ChunkPaths,
             fc \in Contents, st \in StudyIds, pt \in ParticipantIds :
             register_chunked_data(dt, tb, cp, fc, st, pt, None) =>
                 /\ outcome' = Raise("register_chunked_data", UnchunkableDataTypeError)
                 /\ registry' = registry]_vars

C7Witness ==
    /\ outcome = Raise("register_unchunked_data", ChunkableDataTypeError)
    /\ Len(registry) > 0

\* C8: every row of the registry is chunkable if and only if its data type
\* is in the chunkable set, if and only if its chunk_hash is not empty.
C8Claim ==
    \A i \in 1..Len(registry) :
        /\ registry[i].is_chunkable <=> registry[i].data_type \in CHUNKABLE_FILES
        /\ registry[i].data_type \in CHUNKABLE_FILES <=> registry[i].chunk_hash # << >>

\* C9: every successful register_chunked_data adds a row whose time_bin is
\* floor(time_bin) * CHUNK_TIMESLICE_QUANTUM as a timestamp, whatever the sign
\* of time_bin and whether or not it is an integer, whose is_chunkable is
\* true and whose chunk_hash is the hash of the contents.
C9Claim ==
    [][\A dt \in CHUNKABLE_FILES, tb \in TimeBins, cp \in ChunkPaths, fc \in Contents,
          st \in StudyIds, pt \in ParticipantIds :
          register_chunked_data(dt, tb, cp, fc, st, pt, None) =>
              /\ Len(registry') = Len(registry) + 1
              /\ LET row == registry'[Len(registry')]
                 IN  /\ row.time_bin = fromtimestamp(2 * floor(tb) * CHUNK_TIMESLICE_QUANTUM)
                     /\ row.is_chunkable
                     /\ row.chunk_hash = chunk_hash(fc)]_vars

\* C10: append_file_for_processing stores file_path unchanged when it begins
\* with the study's object_id, whatever the length of the object_id, and
\* stores object_id + "/" + file_path otherwise.
C10Claim ==
    [][\A fp \in FilePaths, oid \in ObjectIds, pt \in ParticipantIds :
          (Cardinality(study_pks(oid)) = 1 /\ append_file_for_processing(fp, oid, pt)) =>
              /\ Len(fileQueue') = Len(fileQueue) + 1
              /\ fileQueue'[Len(fileQueue')].s3_file_path =
                     IF StartsWith(fp, oid) THEN fp ELSE oid \o <<"/">> \o fp]_vars

\* C11: get_chunks_time_range returns exactly the rows of the study that
\* satisfy every filter that was supplied (participant among user_ids, data
\* type among data_types, start <= time_bin <= end), also when a supplied
\* list is empty, and changes no row.
C11Claim ==
    [][\A st \in RangeStudyIds, us \in UserIdLists, dts \in DataTypeLists,
          start \in Datetimes, end \in Datetimes :
          get_chunks_time_range(st, us, dts, start, end) =>
              /\ registry' = registry
              /\ outcome'.rows =
                    {pk \in 1..Len(registry) :
                        /\ registry[pk].study_id = st
                        /\ us.given => patient_id(registry[pk].participant_id) \in us.val
                        /\ dts.given => registry[pk].data_type \in dts.val
                        /\ start.given => datetime_lte(start.val, registry[pk].time_bin)
                        /\ end.given => datetime_lte(registry[pk].time_bin, end.val)}]_vars

\* C12: low_memory_update_chunk_hash with any list of fragments leaves the
\* registry that update_chunk_hash with the concatenation of the fragments
\* would leave: the row has the hash of the concatenated content.
C12Thm ==
    [][\A pk \in 1..MaxChunks, frags \in FragmentLists :
          low_memory_update_chunk_hash(pk, frags) =>
              /\ registry'[pk].chunk_hash = chunk_hash(Concat(frags))
              /\ registry' = [registry EXCEPT ![pk].chunk_hash = chunk_hash(Concat(frags))]]_vars

C12Witness ==
    /\ outcome = ReturnNone("low_memory_update_chunk_hash")
    /\ Len(registry) = 1
    /\ registry[1].is_chunkable
    /\ registry[1].chunk_hash = chunk_hash(<<1, 0>>)

\* The object_id of the study of primary key pk.
object_id_of(pk) == (CHOOSE st \in StudyTable : st.pk = pk).object_id

\* C13: the s3_file_path of every row of the file queue begins with the
\* object_id of the study the row was appended for.
C13Thm ==
    \A i \in 1..Len(fileQueue) :
        StartsWith(fileQueue[i].s3_file_path, object_id_of(fileQueue[i].study_id))

C13Witness ==
    \E i, j \in 1..Len(fileQueue) :
        /\ fileQueue[i].study_id = 2
        /\ fileQueue[i].s3_file_path = ObjectIdShort \o <<"/">> \o ObjectId24 \o <<"_", "g", "p", "s", ".", "c", "s", "v">>
        /\ fileQueue[j].study_id = 1
        /\ fileQueue[j].s3_file_path = ObjectId24 \o <<"_", "g", "p", "s", ".", "c", "s", "v">>

\* C20: append_file_for_processing with an object_id that no study has, or
\* that several studies have, raises and leaves the file queue unchanged.
C20Thm ==
    [][\A fp \in FilePaths, oid \in ObjectIds, pt \in ParticipantIds :
          (Cardinality(study_pks(oid)) # 1 /\ append_file_for_processing(fp, oid, pt)) =>
              /\ fileQueue' = fileQueue
              /\ outcome' = Raise("append_file_for_processing",
                                  IF study_pks(oid) = {} THEN DoesNotExist ELSE MultipleObjectsReturned)]_vars

C20Witness ==
    /\ outcome = Raise("append_file_for_processing", MultipleObjectsReturned)
    /\ Len(fileQueue) > 0

\* C14: the lock changes only by lock() and unlock(). A lock() that finds no
\* lock row does not raise, and its create, reached with still no lock row,
\* leaves one row stamped with the current time; while a lock row exists and
\* no unlock() is executed, islocked() returns True, a lock row exists in the
\* next state and every existing row keeps its lock_time, however far the
\* clock advances. After an unlock() no row exists, so the next lock()
\* succeeds as the first did.
C14Thm ==
    [][/\ \A w \in Workers :
             /\ (~islocked /\ lock_islocked(w)) => (pc'[w] = "lock_create" /\ ret'[w] = ret[w])
             /\ (~islocked /\ lock_create(w)) => (lockTable' = <<now>> /\ ret'[w] = ReturnNone("lock"))
             /\ (islocked /\ islocked_call(w)) => ret'[w] = ReturnBool("islocked", TRUE)
       /\ (islocked /\ ~(\E w \in Workers : unlock(w))) =>
             /\ islocked'
             /\ \A i \in 1..Len(lockTable) : lockTable'[i] = lockTable[i]]_vars

C14Witness ==
    \E w \in Workers :
        /\ islocked
        /\ now - lockTable[1] >= 2
        /\ ret[w] = ReturnBool("islocked", TRUE)

\* C16: a register_chunked_data whose hash computation fails raises and
\* leaves the registry as it was: no row is created.
C16Thm ==
    [][\A dt \in DataTypes, tb \in TimeBins, cp \in ChunkPaths, st \in StudyIds, pt \in ParticipantIds :
          (dt \in CHUNKABLE_FILES /\ register_chunked_data(dt, tb, cp, Unhashable, st, pt, None)) =>
              /\ registry' = registry
              /\ outcome' = Raise("register_chunked_data", TypeError)]_vars

C16Witness ==
    /\ outcome = Raise("register_chunked_data", TypeError)
    /\ Len(registry) > 0

\* Row new differs from row old in nothing but chunk_hash.
OnlyHashChanged(old, new) == new = [old EXCEPT !.chunk_hash = new.chunk_hash]

\* C15: the registry is append-only apart from hash updates: no step removes
\* a row or changes a field other than chunk_hash of an existing row, every
\* successful registration appends exactly one row and leaves the existing
\* rows as they were, and update_chunk_hash and low_memory_update_chunk_hash
\* change chunk_hash of the one row they are called on and nothing else.
C15Thm ==
    [][/\ Len(registry') >= Len(registry)
       /\ \A i \in 1..Len(registry) : OnlyHashChanged(registry[i], registry'[i])
       /\ \/ /\ Len(registry') = Len(registry) + 1
             /\ SubSeq(registry', 1, Len(registry)) = registry
          \/ /\ ~\E dt \in DataTypes \cap CHUNKABLE_FILES, tb \in TimeBins, cp \in ChunkPaths,
                    fc \in Contents, st \in StudyIds, pt \in ParticipantIds :
                    register_chunked_data(dt, tb, cp, fc, st, pt, None)
             /\ ~\E dt \in DataTypes \ CHUNKABLE_FILES, tb \in TimeBins, cp \in ChunkPaths,
                    st \in StudyIds, pt \in ParticipantIds :
                    register_unchunked_data(dt, tb, cp, st, pt, None)
       /\ \A pk \in 1..MaxChunks :
             \/ /\ Len(registry') = Len(registry)
                /\ \A i \in 1..Len(registry) : i # pk => registry'[i] = registry[i]
             \/ /\ ~\E data \in Contents : update_chunk_hash(pk, data)
                /\ ~\E frags \in FragmentLists : low_memory_update_chunk_hash(pk, frags)]_vars

C15Witness ==
    /\ outcome = ReturnNone("update_chunk_hash")
    /\ Len(registry) = 2
    /\ registry[1].chunk_hash # registry[2].chunk_hash
    /\ registry[1].is_chunkable /\ registry[2].is_chunkable

\* C18: a successful register_unchunked_data appends exactly one row, whose
\* is_chunkable is false, whose chunk_hash is the empty string and whose
\* time_bin is the timestamp time_bin itself, neither multiplied by
\* CHUNK_TIMESLICE_QUANTUM nor truncated to a whole number.
C18Thm ==
    [][\A dt \in DataTypes \ CHUNKABLE_FILES, tb \in TimeBins, cp \in ChunkPaths,
          st \in StudyIds, pt \in ParticipantIds :
          register_unchunked_data(dt, tb, cp, st, pt, None) =>
              /\ outcome' = ReturnNone("register_unchunked_data")
              /\ Len(registry') = Len(registry) + 1
              /\ SubSeq(registry', 1, Len(registry)) = registry
              /\ LET row == registry'[Len(registry')]
                 IN  /\ row.is_chunkable = FALSE
                     /\ row.chunk_hash = << >>
                     /\ row.time_bin.days * 172800 + row.time_bin.halfseconds = tb
                     /\ row.data_type = dt /\ row.chunk_path = cp
                     /\ row.study_id = st /\ row.participant_id = pt /\ row.survey_id = None]_vars

C18Witness ==
    /\ outcome = ReturnNone("register_unchunked_data")
    /\ Len(registry) = 2
    /\ registry[2].is_chunkable = FALSE
    /\ registry[2].chunk_hash = << >>
    /\ registry[2].time_bin = fromtimestamp(-3)

\* C19: unlock() has no notion of a holder: called by a worker that is not
\* inside the guarded section it deletes every lock row just as it does for
\* the worker inside, the lock is free afterwards, and a lock() that reads
\* the free lock goes on to create its row and returns, also while the worker
\* that acquired first is still inside.
C19Thm ==
    [][\A w \in Workers :
          /\ (force_release(w) \/ pipeline_release(w)) =>
                 /\ Len(lockTable') = 0
                 /\ ret'[w] = ReturnNone("unlock")
          /\ force_release(w) => phase' = phase
          /\ (~islocked /\ pipeline_acquire(w)) => phase'[w] = "acquiring"
          /\ pipeline_enter(w) =>
                 /\ phase'[w] = "in"
                 /\ ret'[w] = ReturnNone("lock")
                 /\ \A v \in Workers : v # w => phase'[v] = phase[v]]_vars

\* Worker 2, outside, deleted the row of worker 1 and then acquired: both are
\* inside and one lock row exists.
C19Witness ==
    /\ lastUnlock = [by |-> 2, phase |-> "out", deleted |-> 1]
    /\ \A w \in Workers : phase[w] = "in" /\ ret[w] = ReturnNone("lock")
    /\ Len(lockTable) = 1

\* The number of rows of table seq that equal row.
CountIn(seq, row) == Cardinality({i \in 1..Len(seq) : seq[i] = row})

\* The table of the given name.
Table(name) == IF name = "registry" THEN registry ELSE fileQueue

\* C17: registrations and appends of different callers do not interfere:
\* once every call that began has returned, the registry and the queue hold
\* exactly one row per call, with the field values the call creates when it
\* runs alone, as after running the calls one after another in any order.
C17Thm ==
    (\A c \in Workers : pending[c] = Idle) =>
        /\ Len(registry) + Len(fileQueue) = Len(issued)
        /\ \A call \in ConcurrentCalls :
              CountIn(Table(table_of(call)), row_of(call)) = CountIn(issued, call)

\* The unchunked registration began first and its row was created last: the
\* chunked registration ran in between.
C17Witness ==
    /\ \A c \in Workers : pending[c] = Idle
    /\ Len(issued) = 3
    /\ issued[1] = UnchunkedCall /\ issued[2] = ChunkedCall
    /\ registry = <<chunked_row(ChunkedCall), unchunked_row(UnchunkedCall)>>
    /\ Len(fileQueue) = 1

=============================================================================
